---- MODULE Spec2Model ----
(***************************************************************************)
(* Onboarding wizard (OnboardingFlow and its step views), the client-side  *)
(* persistence gateway (lib/database/client.ts) against the hosted store,  *)
(* and the agent bridge (app/api/[...path]/route.ts).                      *)
(*                                                                         *)
(* Every asynchronous handler is split at its awaits: the part up to the   *)
(* first await is one action, every store statement is one action of the   *)
(* store, and the continuation after the gateway call returned or threw    *)
(* is one action.  A gateway invocation in flight is an entry of calls.    *)
(***************************************************************************)
EXTENDS Integers, Sequences, FiniteSets, Bags, TLC

VARIABLES
    currentStep,     \* OnboardingFlow: useState(1)
    onboardingData,  \* OnboardingFlow: useState<OnboardingData>({})
    loading,         \* OnboardingFlow: useState(false)
    error,           \* OnboardingFlow: useState('')
    route,           \* the page the router shows
    formData,        \* PersonalInfoStep: the three fields
    formErrors,      \* PersonalInfoStep: errors (field -> message)
    selectedSkills,  \* SkillsStep: skill_id -> level, in insertion order
    calls,           \* gateway invocations in flight (a bag of records)
    session,         \* the identity supabase.auth.getUser() resolves
    profiles,        \* store: table profiles
    userSkills,      \* store: table user_skills (a bag of rows)
    resumes,         \* store: table resumes
    storage,         \* object storage: the paths of bucket 'resumes'
    files,           \* ResumeUploadStep: uploadHook.files
    upLoading,       \* ResumeUploadStep: useState(false)
    upError,         \* ResumeUploadStep: useState('')
    uploadSuccess,   \* ResumeUploadStep: useState(false)
    inbound,         \* agent bridge: the request received
    outbound,        \* agent bridge: the request handed to the passthrough
    page             \* ProtectedPage: its answer to the request for /protected

vars == <<currentStep, onboardingData, loading, error, route, formData,
          formErrors, selectedSkills, calls, session, profiles, userSkills,
          resumes, storage, files, upLoading, upError, uploadSuccess,
          inbound, outbound, page>>

flowVars == <<currentStep, onboardingData, loading, error, route>>
viewVars == <<formData, formErrors, selectedSkills>>
storeVars == <<profiles, userSkills>>
resumeVars == <<resumes, storage>>
uploadVars == <<files, upLoading, upError, uploadSuccess>>
bridgeVars == <<inbound, outbound>>
pageVars == <<page>>
\* what the onboarding controller and the profile and skills operations leave alone
restVars == <<resumeVars, uploadVars, bridgeVars, pageVars>>

(***************************************************************************)
(* Bounds of the model.                                                    *)
(***************************************************************************)
MaxInFlight == 2     \* gateway invocations in flight at once
MaxRows == 3         \* rows of user_skills the store holds

(***************************************************************************)
(* Values.  A string the code inspects character by character is a         *)
(* sequence of one-character strings; an optional value is <<>> or <<v>>.  *)
(***************************************************************************)
None == <<>>
Some(v) == <<v>>

NoUser == "none"
Users == {"u1", "u2"}

PROFICIENCY_LEVELS == <<"beginner", "intermediate", "advanced", "expert">>

Fields == {"full_name", "phone_number", "linkedin_url"}

(***************************************************************************)
(* PersonalInfoStep: validateForm.                                         *)
(***************************************************************************)
Digits == {"0", "1", "2", "3", "4", "5", "6", "7", "8", "9"}

IsSpace(c) == c \in {" ", "\t", "\n"}

RECURSIVE trimStart(_)
trimStart(s) == IF s # <<>> /\ IsSpace(Head(s)) THEN trimStart(Tail(s)) ELSE s

RECURSIVE trimEnd(_)
trimEnd(s) ==
    IF s # <<>> /\ IsSpace(s[Len(s)]) THEN trimEnd(SubSeq(s, 1, Len(s) - 1)) ELSE s

\* String.prototype.trim
trim(s) == trimEnd(trimStart(s))

\* the character class [\d\s\-\(\)]
PhoneClass(c) == c \in Digits \/ IsSpace(c) \/ c \in {"-", "(", ")"}

\* /^\+?[\d\s\-\(\)]+$/.test(s): k is the number of characters \+? takes
PhonePatternTest(s) ==
    \E k \in {0, 1} :
        /\ k = 1 => (s # <<>> /\ Head(s) = "+")
        /\ LET rest == SubSeq(s, k + 1, Len(s))
           IN  rest # <<>> /\ \A i \in DOMAIN rest : PhoneClass(rest[i])

\* String.prototype.includes
includes(s, needle) ==
    \E i \in 0..(Len(s) - Len(needle)) : SubSeq(s, i + 1, i + Len(needle)) = needle

LinkedinNeedle == <<"l", "i", "n", "k", "e", "d", "i", "n", ".", "c", "o", "m">>

FullNameError(fd) == trim(fd.full_name) = <<>>

\* a phone check that tests the value as typed instead of its trim (the
\* behaviour C10 excludes)
PhoneError_untrimmed(fd) ==
    IF fd.phone_number = <<>> THEN "Phone number is required"
    ELSE IF ~PhonePatternTest(fd.phone_number) THEN "Please enter a valid phone number"
    ELSE ""

PhoneError(fd) ==
    IF trim(fd.phone_number) = <<>> THEN "Phone number is required"
    ELSE IF ~PhonePatternTest(fd.phone_number) THEN "Please enter a valid phone number"
    ELSE ""

LinkedinError(fd) ==
    fd.linkedin_url # <<>> /\ ~includes(fd.linkedin_url, LinkedinNeedle)

\* newErrors of validateForm: only the failed fields are keys
validateForm(fd) ==
    LET bad == {f \in Fields :
                  \/ f = "full_name" /\ FullNameError(fd)
                  \/ f = "phone_number" /\ PhoneError(fd) # ""
                  \/ f = "linkedin_url" /\ LinkedinError(fd)}
    IN  [f \in bad |->
            CASE f = "full_name" -> "Full name is required"
              [] f = "phone_number" -> PhoneError(fd)
              [] OTHER -> "Please enter a valid LinkedIn URL"]

NoErrors == [f \in {} |-> ""]

EmptyForm == [full_name |-> <<>>, phone_number |-> <<>>, linkedin_url |-> <<>>]

\* useState of PersonalInfoStep: initialData?.f || ''
InitialFormData(data) ==
    IF data.personalInfo = None THEN EmptyForm ELSE data.personalInfo[1]

\* the useEffect of SkillsStep that copies initialSkills (when it is non-empty)
RECURSIVE InitialSelected(_)
InitialSelected(skills) ==
    IF skills = <<>> THEN <<>>
    ELSE LET rest == InitialSelected(SubSeq(skills, 1, Len(skills) - 1))
             last == skills[Len(skills)]
         IN  IF \E i \in DOMAIN rest : rest[i].skill_id = last.skill_id
             THEN [i \in DOMAIN rest |->
                     IF rest[i].skill_id = last.skill_id THEN last ELSE rest[i]]
             ELSE Append(rest, last)

(***************************************************************************)
(* The hosted store.  A statement either takes effect and reports no error *)
(* or reports an error and changes nothing; which of the two is the        *)
(* store's choice (storeOk).                                               *)
(***************************************************************************)
StoreMessages == {"store error"}

NoUpdates ==
    [full_name |-> None, phone_number |-> None, linkedin_url |-> None,
     onboarding_completed |-> None]

\* .update({...updates}) on one row of profiles: only the given columns change
ApplyUpdates(row, updates) ==
    [id |-> row.id,
     full_name |-> IF updates.full_name = None THEN row.full_name
                   ELSE updates.full_name,
     phone_number |-> IF updates.phone_number = None THEN row.phone_number
                      ELSE updates.phone_number,
     linkedin_url |-> IF updates.linkedin_url = None THEN row.linkedin_url
                      ELSE updates.linkedin_url,
     onboarding_completed |-> IF updates.onboarding_completed = None
                              THEN row.onboarding_completed
                              ELSE updates.onboarding_completed[1]]

\* the rows .eq('id', u) selects
ProfileRows(u) == {r \in profiles : r.id = u}

\* .from('user_skills').delete().eq('user_id', u)
DeleteUserSkills(bag, u) ==
    [r \in {x \in BagToSet(bag) : x.user_id # u} |-> bag[r]]

\* skills.map(skill => ({...skill, user_id: user.id}))
skillsWithUserId(skills, u) ==
    [i \in DOMAIN skills |->
        [user_id |-> u, skill_id |-> skills[i].skill_id,
         proficiency_level |-> skills[i].proficiency_level]]

RECURSIVE SeqToBag(_)
SeqToBag(rows) ==
    IF rows = <<>> THEN EmptyBag
    ELSE SeqToBag(Tail(rows)) (+) SetToBag({Head(rows)})

\* .from('user_skills').insert(rows)
InsertUserSkills(bag, rows) == bag (+) SeqToBag(rows)

\* the user_skills rows of user u, as a bag
SkillRowsOf(bag, u) ==
    [r \in {x \in BagToSet(bag) : x.user_id = u} |-> bag[r]]

(***************************************************************************)
(* Gateway invocations (lib/database/client.ts).                           *)
(***************************************************************************)
\* one invocation c of the bag becomes d
Replace(c, d) == (calls (-) SetToBag({c})) (+) SetToBag({d})

Pending == [state |-> "pending", message |-> <<>>]
Returned == [Pending EXCEPT !.state = "returned"]
Thrown(msg) == [Pending EXCEPT !.state = "thrown", !.message = msg]

NoResumeData == [file_url |-> <<>>, file_name |-> "", is_master |-> FALSE]

\* an invocation before its first await, its operation and caller left blank
BlankCall ==
    [op |-> "", caller |-> "", updates |-> NoUpdates, skills |-> <<>>,
     resumeData |-> NoResumeData, resumeId |-> 0, path |-> <<>>,
     data |-> EmptyForm, pc |-> "getUser", user |-> NoUser, out |-> Pending]

\* an invocation of operation op by caller, before its first await; the
\* arguments are updates (updateProfileClient), skills
\* (updateUserSkillsClient), resumeData (createResumeClient), resumeId
\* (setMasterResumeClient), path (uploadFile); data is the fragment the
\* calling handler holds
NewCall(op, caller) == [BlankCall EXCEPT !.op = op, !.caller = caller]

\* the first store statement of each operation
FirstStatement(op) ==
    CASE op = "updateProfileClient" -> "update"
      [] op = "updateUserSkillsClient" -> "delete"
      [] op = "createResumeClient" -> "insertResume"
      [] op = "setMasterResumeClient" -> "unset"

\* const { data: { user }, error: authError } = await supabase.auth.getUser()
\* if (authError || !user) throw new Error('User not authenticated')
getUser(c) ==
    /\ c.pc = "getUser"
    /\ \E authError \in BOOLEAN :
          calls' = IF authError \/ session = NoUser
                   THEN Replace(c, [c EXCEPT !.pc = "done", !.out = Thrown(<<"User not authenticated">>)])
                   ELSE Replace(c, [c EXCEPT !.pc = FirstStatement(c.op), !.user = session])
    /\ UNCHANGED <<flowVars, viewVars, storeVars, session>>
    /\ UNCHANGED restVars

\* updateProfileClient: .update(...).eq('id', user.id).select().single()
updateProfileClient_update(c) ==
    /\ c.op = "updateProfileClient" /\ c.pc = "update"
    /\ \E storeOk \in BOOLEAN, m \in StoreMessages :
          LET rows == ProfileRows(c.user)
          IN  IF storeOk /\ Cardinality(rows) = 1
              THEN /\ profiles' = (profiles \ rows) \cup
                                  {ApplyUpdates(r, c.updates) : r \in rows}
                   /\ calls' = Replace(c, [c EXCEPT !.pc = "done", !.out = Returned])
              ELSE /\ profiles' = profiles
                   /\ calls' = Replace(c, [c EXCEPT !.pc = "done", !.out = Thrown(<<"Failed to update profile: ", m>>)])
    /\ UNCHANGED <<flowVars, viewVars, userSkills, session>>
    /\ UNCHANGED restVars

\* updateUserSkillsClient: await ...delete().eq('user_id', user.id); the
\* result of the statement is not looked at
updateUserSkillsClient_delete(c) ==
    /\ c.op = "updateUserSkillsClient" /\ c.pc = "delete"
    /\ \E storeOk \in BOOLEAN :
          userSkills' = IF storeOk THEN DeleteUserSkills(userSkills, c.user)
                        ELSE userSkills
    /\ calls' = IF Len(c.skills) > 0
                THEN Replace(c, [c EXCEPT !.pc = "insert"])
                ELSE Replace(c, [c EXCEPT !.pc = "done", !.out = Returned])
    /\ UNCHANGED <<flowVars, viewVars, profiles, session>>
    /\ UNCHANGED restVars

\* updateUserSkillsClient: .insert(skillsWithUserId).select()
updateUserSkillsClient_insert(c) ==
    /\ c.op = "updateUserSkillsClient" /\ c.pc = "insert"
    /\ \E storeOk \in BOOLEAN, m \in StoreMessages :
          LET rows == skillsWithUserId(c.skills, c.user)
          IN  IF storeOk /\ BagCardinality(userSkills) + Len(rows) <= MaxRows
              THEN /\ userSkills' = InsertUserSkills(userSkills, rows)
                   /\ calls' = Replace(c, [c EXCEPT !.pc = "done", !.out = Returned])
              ELSE /\ userSkills' = userSkills
                   /\ calls' = Replace(c, [c EXCEPT !.pc = "done", !.out = Thrown(<<"Failed to update user skills: ", m>>)])
    /\ UNCHANGED <<flowVars, viewVars, profiles, session>>
    /\ UNCHANGED restVars

(***************************************************************************)
(* OnboardingFlow and its step views.                                      *)
(***************************************************************************)
Vias == {"pointer", "keyboard"}

\* The "Loading Overlay" is a fixed full-screen element drawn over the step
\* view while loading: it takes the pointer events, and nothing else.  No
\* handler reads loading and no control is disabled by it.
Reaches(via) == via = "keyboard" \/ ~loading

\* the user can act on the step view that is rendered
UserCan == route = "/onboarding" /\ \E via \in Vias : Reaches(via)

\* renderStep: the view of the new step is mounted with fresh local state
\* (initialData / initialSkills), a view that stays mounted keeps its state
MountViews(newStep, newData) ==
    /\ formData' = IF newStep # 1 THEN EmptyForm
                   ELSE IF currentStep = 1 THEN formData
                   ELSE InitialFormData(newData)
    /\ formErrors' = IF newStep = 1 /\ currentStep = 1 THEN formErrors ELSE NoErrors
    /\ selectedSkills' =
          IF newStep # 3 THEN <<>>
          ELSE IF currentStep = 3 THEN selectedSkills
          ELSE IF newData.skills = None THEN <<>>
          ELSE InitialSelected(newData.skills[1])

\* handlePersonalInfoNext up to its await
handlePersonalInfoNext(data) ==
    /\ BagCardinality(calls) < MaxInFlight
    /\ loading' = TRUE
    /\ error' = ""
    /\ calls' = calls (+) SetToBag({
          [NewCall("updateProfileClient", "handlePersonalInfoNext") EXCEPT
              !.updates = [NoUpdates EXCEPT
                              !.full_name = Some(data.full_name),
                              !.phone_number = Some(data.phone_number),
                              !.linkedin_url = Some(data.linkedin_url)],
              !.data = data]})
    /\ UNCHANGED <<currentStep, onboardingData, route>>

\* a continuation that would advance before knowing the outcome of the call
handlePersonalInfoNext_settled_optimistic(c) ==
    /\ c.caller = "handlePersonalInfoNext" /\ c.pc = "done"
    /\ onboardingData' = [onboardingData EXCEPT !.personalInfo = Some(c.data)]
    /\ currentStep' = 2
    /\ error' = IF c.out.state = "returned"
                THEN error
                ELSE "Failed to save personal information. Please try again."
    /\ loading' = FALSE
    /\ calls' = calls (-) SetToBag({c})
    /\ MountViews(currentStep', onboardingData')
    /\ UNCHANGED <<route, session, storeVars>>
    /\ UNCHANGED restVars

\* handlePersonalInfoNext after the await: try / catch / finally
handlePersonalInfoNext_settled(c) ==
    /\ c.caller = "handlePersonalInfoNext" /\ c.pc = "done"
    /\ IF c.out.state = "returned"
       THEN /\ onboardingData' =
                  [onboardingData EXCEPT !.personalInfo = Some(c.data)]
            /\ currentStep' = 2
            /\ error' = error
       ELSE /\ error' = "Failed to save personal information. Please try again."
            /\ UNCHANGED <<onboardingData, currentStep>>
    /\ loading' = FALSE
    /\ calls' = calls (-) SetToBag({c})
    /\ MountViews(currentStep', onboardingData')
    /\ UNCHANGED <<route, session, storeVars>>
    /\ UNCHANGED restVars

\* handleResumeUploadNext
handleResumeUploadNext ==
    /\ currentStep' = 3
    /\ MountViews(3, onboardingData)
    /\ UNCHANGED <<onboardingData, loading, error, route, calls, session, storeVars>>
    /\ UNCHANGED restVars

\* handleSkillsNext up to its await
handleSkillsNext(skills) ==
    /\ BagCardinality(calls) < MaxInFlight
    /\ loading' = TRUE
    /\ error' = ""
    /\ calls' = calls (+) SetToBag({
          [NewCall("updateUserSkillsClient", "handleSkillsNext") EXCEPT
              !.skills = skills]})
    /\ UNCHANGED <<currentStep, onboardingData, route>>

\* a continuation that would advance without storing the fragment
handleSkillsNext_settled_stepOnly(c) ==
    /\ c.caller = "handleSkillsNext" /\ c.pc = "done"
    /\ IF c.out.state = "returned"
       THEN /\ currentStep' = 4
            /\ UNCHANGED <<onboardingData, error>>
       ELSE /\ error' = "Failed to save skills. Please try again."
            /\ UNCHANGED <<onboardingData, currentStep>>
    /\ loading' = FALSE
    /\ calls' = calls (-) SetToBag({c})
    /\ MountViews(currentStep', onboardingData')
    /\ UNCHANGED <<route, session, storeVars>>
    /\ UNCHANGED restVars

\* a continuation that would drop the result of a call the user has
\* navigated away from
handleSkillsNext_settled_cancellable(c) ==
    /\ c.caller = "handleSkillsNext" /\ c.pc = "done"
    /\ IF c.out.state = "returned"
       THEN IF currentStep = 3
            THEN /\ onboardingData' = [onboardingData EXCEPT !.skills = Some(c.skills)]
                 /\ currentStep' = 4
                 /\ error' = error
            ELSE UNCHANGED <<onboardingData, currentStep, error>>
       ELSE /\ error' = "Failed to save skills. Please try again."
            /\ UNCHANGED <<onboardingData, currentStep>>
    /\ loading' = FALSE
    /\ calls' = calls (-) SetToBag({c})
    /\ MountViews(currentStep', onboardingData')
    /\ UNCHANGED <<route, session, storeVars>>
    /\ UNCHANGED restVars

\* handleSkillsNext after the await
handleSkillsNext_settled(c) ==
    /\ c.caller = "handleSkillsNext" /\ c.pc = "done"
    /\ IF c.out.state = "returned"
       THEN /\ onboardingData' =
                  [onboardingData EXCEPT !.skills = Some(c.skills)]
            /\ currentStep' = 4
            /\ error' = error
       ELSE /\ error' = "Failed to save skills. Please try again."
            /\ UNCHANGED <<onboardingData, currentStep>>
    /\ loading' = FALSE
    /\ calls' = calls (-) SetToBag({c})
    /\ MountViews(currentStep', onboardingData')
    /\ UNCHANGED <<route, session, storeVars>>
    /\ UNCHANGED restVars

\* handleComplete up to its await
handleComplete ==
    /\ BagCardinality(calls) < MaxInFlight
    /\ loading' = TRUE
    /\ error' = ""
    /\ calls' = calls (+) SetToBag({
          [NewCall("updateProfileClient", "handleComplete") EXCEPT
              !.updates = [NoUpdates EXCEPT !.onboarding_completed = Some(TRUE)]]})
    /\ UNCHANGED <<currentStep, onboardingData, route>>

\* handleComplete after the await
handleComplete_settled(c) ==
    /\ c.caller = "handleComplete" /\ c.pc = "done"
    /\ IF c.out.state = "returned"
       THEN /\ route' = "/protected"
            /\ error' = error
       ELSE /\ error' = "Failed to complete onboarding. Please try again."
            /\ route' = route
    /\ loading' = FALSE
    /\ calls' = calls (-) SetToBag({c})
    /\ UNCHANGED <<currentStep, onboardingData, viewVars, session, storeVars>>
    /\ UNCHANGED restVars

\* a handleBack without the test currentStep > 1
handleBack_unguarded ==
    /\ currentStep' = currentStep - 1
    /\ MountViews(currentStep', onboardingData)
    /\ UNCHANGED <<onboardingData, loading, error, route, calls, session, storeVars>>
    /\ UNCHANGED restVars

\* handleBack
handleBack ==
    /\ currentStep' = IF currentStep > 1 THEN currentStep - 1 ELSE currentStep
    /\ MountViews(currentStep', onboardingData)
    /\ UNCHANGED <<onboardingData, loading, error, route, calls, session, storeVars>>
    /\ UNCHANGED restVars

\* PersonalInfoStep.handleInputChange
handleInputChange(field, value) ==
    /\ UserCan /\ currentStep = 1
    /\ formData' = [formData EXCEPT ![field] = value]
    /\ formErrors' = IF field \in DOMAIN formErrors /\ formErrors[field] # ""
                     THEN [formErrors EXCEPT ![field] = ""]
                     ELSE formErrors
    /\ UNCHANGED <<flowVars, selectedSkills, calls, session, storeVars>>
    /\ UNCHANGED restVars

\* PersonalInfoStep.handleSubmit
handleSubmit ==
    /\ UserCan /\ currentStep = 1
    /\ LET newErrors == validateForm(formData)
       IN  /\ formErrors' = newErrors
           /\ IF DOMAIN newErrors = {}
              THEN handlePersonalInfoNext(formData)
              ELSE UNCHANGED <<flowVars, calls>>
    /\ UNCHANGED <<formData, selectedSkills, session, storeVars>>
    /\ UNCHANGED restVars

\* ResumeUploadStep.handleSkip: onNext()
handleSkip ==
    /\ UserCan /\ currentStep = 2
    /\ handleResumeUploadNext

\* the Back button of ResumeUploadStep and of SkillsStep: onBack()
onBack ==
    /\ UserCan /\ currentStep \in {2, 3}
    /\ handleBack

IsSelected(skillId) == \E k \in DOMAIN selectedSkills : selectedSkills[k].skill_id = skillId

\* a toggleSkill that would not look whether the skill is selected
toggleSkill_appendOnly(skillId) ==
    /\ UserCan /\ currentStep = 3
    /\ selectedSkills' =
          Append(selectedSkills,
                 [skill_id |-> skillId, proficiency_level |-> "intermediate"])
    /\ UNCHANGED <<flowVars, formData, formErrors, calls, session, storeVars>>
    /\ UNCHANGED restVars

\* SkillsStep.toggleSkill
toggleSkill(skillId) ==
    /\ UserCan /\ currentStep = 3
    /\ selectedSkills' =
          IF IsSelected(skillId)
          THEN SelectSeq(selectedSkills, LAMBDA e : e.skill_id # skillId)
          ELSE Append(selectedSkills,
                      [skill_id |-> skillId, proficiency_level |-> "intermediate"])
    /\ UNCHANGED <<flowVars, formData, formErrors, calls, session, storeVars>>
    /\ UNCHANGED restVars

\* SkillsStep.updateProficiency (the select of a selected skill)
updateProficiency(skillId, level) ==
    /\ UserCan /\ currentStep = 3
    /\ IsSelected(skillId)
    /\ selectedSkills' =
          [k \in DOMAIN selectedSkills |->
              IF selectedSkills[k].skill_id = skillId
              THEN [skill_id |-> skillId, proficiency_level |-> level]
              ELSE selectedSkills[k]]
    /\ UNCHANGED <<flowVars, formData, formErrors, calls, session, storeVars>>
    /\ UNCHANGED restVars

\* SkillsStep.handleNext: onNext(Object.entries(selectedSkills).map(...))
SkillsStep_handleNext ==
    /\ UserCan /\ currentStep = 3
    /\ handleSkillsNext(selectedSkills)
    /\ UNCHANGED <<viewVars, session, storeVars>>
    /\ UNCHANGED restVars

\* CompletionStep: the "Get Started" button, onComplete()
onComplete ==
    /\ UserCan /\ currentStep = 4
    /\ handleComplete
    /\ UNCHANGED <<viewVars, session, storeVars>>
    /\ UNCHANGED restVars

(***************************************************************************)
(* Spec: the onboarding flow of user u1 against the store.                 *)
(***************************************************************************)
NewProfile(u) ==
    [id |-> u, full_name |-> None, phone_number |-> None, linkedin_url |-> None,
     onboarding_completed |-> FALSE]

SkillRow(u, s, l) == [user_id |-> u, skill_id |-> s, proficiency_level |-> l]

\* what user_skills may hold when the flow starts
InitialUserSkills ==
    {SetToBag({SkillRow("u2", "s1", "expert"), SkillRow("u1", "s1", "beginner")})}

\* what the user types into the fields of step 1 in this specification
FlowValues(field) ==
    CASE field = "full_name" -> {<<>>, <<"A">>}
      [] field = "phone_number" -> {<<>>, <<"5">>}
      [] field = "linkedin_url" -> {<<>>}

\* the skills and levels the user picks on step 3 in this specification
FlowSkillIds == {"s1"}

FlowLevels == {"intermediate", "expert"}

Init ==
    /\ currentStep = 1
    /\ onboardingData = [personalInfo |-> None, skills |-> None]
    /\ loading = FALSE
    /\ error = ""
    /\ route = "/onboarding"
    /\ formData = EmptyForm
    /\ formErrors = NoErrors
    /\ selectedSkills = <<>>
    /\ calls = EmptyBag
    /\ session = "u1"
    /\ profiles = {NewProfile(u) : u \in Users}
    /\ userSkills \in InitialUserSkills
    /\ resumes = {}
    /\ storage = {}
    /\ files = None
    /\ upLoading = FALSE
    /\ upError = <<>>
    /\ uploadSuccess = FALSE
    /\ inbound = None
    /\ outbound = None
    /\ page = "none"

InputChange == \E f \in Fields : \E v \in FlowValues(f) : handleInputChange(f, v)

ToggleSkill == \E s \in FlowSkillIds : toggleSkill(s)

UpdateProficiency == \E s \in FlowSkillIds, l \in FlowLevels : updateProficiency(s, l)

GetUser == \E c \in BagToSet(calls) : getUser(c)

ProfileUpdate == \E c \in BagToSet(calls) : updateProfileClient_update(c)

SkillsDelete == \E c \in BagToSet(calls) : updateUserSkillsClient_delete(c)

SkillsInsert == \E c \in BagToSet(calls) : updateUserSkillsClient_insert(c)

PersonalInfoSettled == \E c \in BagToSet(calls) : handlePersonalInfoNext_settled(c)

SkillsSettled == \E c \in BagToSet(calls) : handleSkillsNext_settled(c)

CompleteSettled == \E c \in BagToSet(calls) : handleComplete_settled(c)

Next ==
    \/ InputChange
    \/ handleSubmit
    \/ handleSkip
    \/ onBack
    \/ ToggleSkill
    \/ UpdateProficiency
    \/ SkillsStep_handleNext
    \/ onComplete
    \/ GetUser
    \/ ProfileUpdate
    \/ SkillsDelete
    \/ SkillsInsert
    \/ PersonalInfoSettled
    \/ SkillsSettled
    \/ CompleteSettled

Spec == Init /\ [][Next]_vars

(***************************************************************************)
(* Resume operations of the gateway and ResumeUploadStep.                  *)
(***************************************************************************)
MaxResumes == 2      \* rows of resumes the store holds

FileNames == {"a.pdf", "b.pdf"}

\* `${userId}/${file.name}` in bucket 'resumes'
StoragePath(u, name) == <<u, name>>

\* supabase.storage.from('resumes').getPublicUrl(fileName)
PublicUrl(path) == <<"resumes">> \o path

\* createResumeClient: .insert({...resumeData, user_id: user.id}).select().single()
createResumeClient_insert(c) ==
    /\ c.op = "createResumeClient" /\ c.pc = "insertResume"
    /\ \E storeOk \in BOOLEAN, m \in StoreMessages :
          IF storeOk /\ Cardinality(resumes) < MaxResumes
          THEN /\ resumes' = resumes \cup
                     {[id |-> Cardinality(resumes) + 1, user_id |-> c.user,
                       file_url |-> c.resumeData.file_url,
                       file_name |-> c.resumeData.file_name,
                       is_master |-> c.resumeData.is_master]}
               /\ calls' = Replace(c, [c EXCEPT !.pc = "done", !.out = Returned])
          ELSE /\ resumes' = resumes
               /\ calls' = Replace(c, [c EXCEPT
                      !.pc = "done",
                      !.out = Thrown(<<"Failed to create resume: ", m>>)])
    /\ UNCHANGED <<flowVars, viewVars, storeVars, session, storage, uploadVars,
                   bridgeVars, pageVars>>

\* setMasterResumeClient: await ...update({ is_master: false })
\* .eq('user_id', user.id); the result of the statement is not looked at
setMasterResumeClient_unset(c) ==
    /\ c.op = "setMasterResumeClient" /\ c.pc = "unset"
    /\ \E storeOk \in BOOLEAN :
          resumes' = IF storeOk
                     THEN {[r EXCEPT !.is_master =
                               IF r.user_id = c.user THEN FALSE ELSE @] : r \in resumes}
                     ELSE resumes
    /\ calls' = Replace(c, [c EXCEPT !.pc = "set"])
    /\ UNCHANGED <<flowVars, viewVars, storeVars, session, storage, uploadVars,
                   bridgeVars, pageVars>>

\* a set statement that would also clear the caller's other rows in the same
\* statement
setMasterResumeClient_set_exclusive(c) ==
    /\ c.op = "setMasterResumeClient" /\ c.pc = "set"
    /\ \E storeOk \in BOOLEAN, m \in StoreMessages :
          LET rows == {r \in resumes : r.id = c.resumeId /\ r.user_id = c.user}
          IN  IF storeOk /\ Cardinality(rows) = 1
              THEN /\ resumes' = {[r EXCEPT !.is_master =
                                      IF r.user_id = c.user
                                      THEN r.id = c.resumeId ELSE @] : r \in resumes}
                   /\ calls' = Replace(c, [c EXCEPT !.pc = "done", !.out = Returned])
              ELSE /\ resumes' = resumes
                   /\ calls' = Replace(c, [c EXCEPT
                          !.pc = "done",
                          !.out = Thrown(<<"Failed to set master resume: ", m>>)])
    /\ UNCHANGED <<flowVars, viewVars, storeVars, session, storage, uploadVars,
                   bridgeVars, pageVars>>

\* setMasterResumeClient: .update({ is_master: true }).eq('id', resumeId)
\* .eq('user_id', user.id).select().single()
setMasterResumeClient_set(c) ==
    /\ c.op = "setMasterResumeClient" /\ c.pc = "set"
    /\ \E storeOk \in BOOLEAN, m \in StoreMessages :
          LET rows == {r \in resumes : r.id = c.resumeId /\ r.user_id = c.user}
          IN  IF storeOk /\ Cardinality(rows) = 1
              THEN /\ resumes' = (resumes \ rows) \cup
                                 {[r EXCEPT !.is_master = TRUE] : r \in rows}
                   /\ calls' = Replace(c, [c EXCEPT !.pc = "done", !.out = Returned])
              ELSE /\ resumes' = resumes
                   /\ calls' = Replace(c, [c EXCEPT
                          !.pc = "done",
                          !.out = Thrown(<<"Failed to set master resume: ", m>>)])
    /\ UNCHANGED <<flowVars, viewVars, storeVars, session, storage, uploadVars,
                   bridgeVars, pageVars>>

\* uploadFile: supabase.storage.from(bucket).upload(path, file), without
\* upsert: a path that exists is refused
uploadFile_upload(c) ==
    /\ c.op = "uploadFile" /\ c.pc = "upload"
    /\ \E storageOk \in BOOLEAN, m \in StoreMessages :
          IF storageOk /\ c.path \notin storage
          THEN /\ storage' = storage \cup {c.path}
               /\ calls' = Replace(c, [c EXCEPT !.pc = "done", !.out = Returned])
          ELSE /\ storage' = storage
               /\ calls' = Replace(c, [c EXCEPT
                      !.pc = "done",
                      !.out = Thrown(<<"Failed to upload file: ", m>>)])
    /\ UNCHANGED <<flowVars, viewVars, storeVars, session, resumes, uploadVars,
                   bridgeVars, pageVars>>

\* the dropzone of ResumeUploadStep: a file is chosen (maxFiles: 1)
selectFile(name) ==
    /\ ~upLoading
    /\ files' = Some(name)
    /\ UNCHANGED <<flowVars, viewVars, storeVars, session, calls, resumeVars,
                   upLoading, upError, uploadSuccess, bridgeVars, pageVars>>

\* ResumeUploadStep.handleUpload up to its first await.  The button is
\* rendered while !uploadSuccess and disabled while no file is chosen or
\* loading.
handleUpload ==
    /\ ~uploadSuccess /\ ~(files = None \/ upLoading)
    /\ IF files = None
       THEN /\ upError' = <<"Please select a resume file to upload.">>
            /\ UNCHANGED <<upLoading, calls>>
       ELSE /\ upLoading' = TRUE
            /\ upError' = <<>>
            /\ calls' = calls (+) SetToBag({
                  [NewCall("createResumeClient", "handleUpload") EXCEPT
                      !.pc = "handleUpload.getUser",
                      !.resumeData = [file_url |-> <<>>, file_name |-> files[1],
                                      is_master |-> TRUE]]})
    /\ UNCHANGED <<flowVars, viewVars, storeVars, session, resumeVars, files,
                   uploadSuccess, bridgeVars, pageVars>>

\* handleUpload: supabase.auth.getUser(); if (authError || !user) { setError; return }
handleUpload_getUser(c) ==
    /\ c.caller = "handleUpload" /\ c.pc = "handleUpload.getUser"
    /\ \E authError \in BOOLEAN :
          calls' = IF authError \/ session = NoUser
                   THEN Replace(c, [c EXCEPT
                           !.pc = "done",
                           !.out = [Pending EXCEPT !.state = "notLoggedIn"]])
                   ELSE Replace(c, [c EXCEPT !.pc = "handleUpload.upload",
                                             !.user = session])
    /\ UNCHANGED <<flowVars, viewVars, storeVars, session, resumeVars, uploadVars,
                   bridgeVars, pageVars>>

\* an upload phase whose error would not be looked at
handleUpload_upload_unchecked(c) ==
    /\ c.caller = "handleUpload" /\ c.pc = "handleUpload.upload"
    /\ \E storageOk \in BOOLEAN :
          LET fileName == StoragePath(c.user, c.resumeData.file_name)
          IN  /\ storage' = IF storageOk THEN storage \cup {fileName} ELSE storage
              /\ calls' = Replace(c, [c EXCEPT
                     !.pc = "getUser",
                     !.resumeData.file_url = PublicUrl(fileName)])
    /\ UNCHANGED <<flowVars, viewVars, storeVars, session, resumes, uploadVars,
                   bridgeVars, pageVars>>

\* handleUpload: storage.from('resumes').upload(fileName, file, { upsert: true }),
\* getPublicUrl(fileName), then createResumeClient({..., is_master: true})
handleUpload_upload(c) ==
    /\ c.caller = "handleUpload" /\ c.pc = "handleUpload.upload"
    /\ \E storageOk \in BOOLEAN, m \in StoreMessages :
          LET fileName == StoragePath(c.user, c.resumeData.file_name)
          IN  IF storageOk
              THEN /\ storage' = storage \cup {fileName}
                   /\ calls' = Replace(c, [c EXCEPT
                          !.pc = "getUser",
                          !.resumeData.file_url = PublicUrl(fileName)])
              ELSE /\ storage' = storage
                   /\ calls' = Replace(c, [c EXCEPT
                          !.pc = "done",
                          !.out = [Pending EXCEPT !.state = "uploadError", !.message = <<m>>]])
    /\ UNCHANGED <<flowVars, viewVars, storeVars, session, resumes, uploadVars,
                   bridgeVars, pageVars>>

\* handleUpload after its awaits: the early returns, setUploadSuccess(true),
\* catch and finally
handleUpload_settled(c) ==
    /\ c.caller = "handleUpload" /\ c.pc = "done"
    /\ upError' =
          CASE c.out.state = "notLoggedIn" ->
                  <<"You must be logged in to upload a resume.">>
            [] c.out.state = "uploadError" ->
                  <<"Failed to upload resume: ">> \o c.out.message
            [] c.out.state = "thrown" ->
                  <<"Failed to upload resume: ">> \o c.out.message
            [] OTHER -> upError
    /\ uploadSuccess' = IF c.out.state = "returned" THEN TRUE ELSE uploadSuccess
    /\ upLoading' = FALSE
    /\ calls' = calls (-) SetToBag({c})
    /\ UNCHANGED <<flowVars, viewVars, storeVars, session, resumeVars, files,
                   bridgeVars, pageVars>>

\* renderStep, case 2: ResumeUploadStep is mounted again (the user left
\* step 2 and came back) with fresh local state
mountResumeUploadStep ==
    /\ calls = EmptyBag
    /\ files # None \/ upError # <<>> \/ uploadSuccess
    /\ files' = None
    /\ upLoading' = FALSE
    /\ upError' = <<>>
    /\ uploadSuccess' = FALSE
    /\ UNCHANGED <<flowVars, viewVars, storeVars, session, calls, resumeVars,
                   bridgeVars, pageVars>>

(***************************************************************************)
(* GatewaySpec: the gateway operations called one after the other (each    *)
(* call is awaited before the next is made), by a caller with or without   *)
(* a session.                                                              *)
(***************************************************************************)
\* a gateway operation is called directly and awaited
callDirect(call) ==
    /\ calls = EmptyBag
    /\ calls' = SetToBag({call})
    /\ UNCHANGED <<flowVars, viewVars, storeVars, session, resumeVars, uploadVars,
                   bridgeVars, pageVars>>

\* the awaiting caller resumes with the value returned or the error thrown
callerResumes(c) ==
    /\ c.caller = "direct" /\ c.pc = "done"
    /\ calls' = calls (-) SetToBag({c})
    /\ UNCHANGED <<flowVars, viewVars, storeVars, session, resumeVars, uploadVars,
                   bridgeVars, pageVars>>

\* the arguments of the direct calls in this specification
GatewaySkillSets ==
    {<<>>,
     <<[skill_id |-> "s1", proficiency_level |-> "intermediate"]>>,
     <<[skill_id |-> "s2", proficiency_level |-> "expert"]>>}

GatewayResumeData ==
    {[file_url |-> PublicUrl(StoragePath("u1", f)), file_name |-> f, is_master |-> b] :
        f \in {"a.pdf"}, b \in BOOLEAN}

CallUpdateProfile ==
    callDirect([NewCall("updateProfileClient", "direct") EXCEPT
                   !.updates = [NoUpdates EXCEPT !.onboarding_completed = Some(TRUE)]])

CallUpdateUserSkills ==
    \E skills \in GatewaySkillSets :
        callDirect([NewCall("updateUserSkillsClient", "direct") EXCEPT
                       !.skills = skills])

CallCreateResume ==
    \E resumeData \in GatewayResumeData :
        callDirect([NewCall("createResumeClient", "direct") EXCEPT
                       !.resumeData = resumeData])

CallSetMasterResume ==
    \E resumeId \in 1..MaxResumes :
        callDirect([NewCall("setMasterResumeClient", "direct") EXCEPT
                       !.resumeId = resumeId])

\* uploadFile has no getUser: its first await is the upload
CallUploadFile ==
    \E name \in {"a.pdf"} :
        callDirect([NewCall("uploadFile", "direct") EXCEPT
                       !.pc = "upload", !.path = <<"shared", name>>])

CallerResumes == \E c \in BagToSet(calls) : callerResumes(c)

SelectFile == \E name \in FileNames : selectFile(name)

ResumeInsert == \E c \in BagToSet(calls) : createResumeClient_insert(c)

MasterUnset == \E c \in BagToSet(calls) : setMasterResumeClient_unset(c)

MasterSet == \E c \in BagToSet(calls) : setMasterResumeClient_set(c)

FileUpload == \E c \in BagToSet(calls) : uploadFile_upload(c)

UploadGetUser == \E c \in BagToSet(calls) : handleUpload_getUser(c)

UploadUpload == \E c \in BagToSet(calls) : handleUpload_upload(c)

UploadSettled == \E c \in BagToSet(calls) : handleUpload_settled(c)

GatewayInit ==
    /\ currentStep = 2
    /\ onboardingData = [personalInfo |-> None, skills |-> None]
    /\ loading = FALSE
    /\ error = ""
    /\ route = "/onboarding"
    /\ formData = EmptyForm
    /\ formErrors = NoErrors
    /\ selectedSkills = <<>>
    /\ calls = EmptyBag
    /\ session \in {"u1", NoUser}
    /\ profiles = {NewProfile(u) : u \in Users}
    /\ userSkills \in InitialUserSkills
    /\ resumes = {}
    /\ storage = {}
    /\ files = None
    /\ upLoading = FALSE
    /\ upError = <<>>
    /\ uploadSuccess = FALSE
    /\ inbound = None
    /\ outbound = None
    /\ page = "none"

GatewayNext ==
    \/ CallUpdateProfile
    \/ CallUpdateUserSkills
    \/ CallCreateResume
    \/ CallSetMasterResume
    \/ CallUploadFile
    \/ CallerResumes
    \/ GetUser
    \/ ProfileUpdate
    \/ SkillsDelete
    \/ SkillsInsert
    \/ ResumeInsert
    \/ MasterUnset
    \/ MasterSet
    \/ FileUpload

GatewaySpec == GatewayInit /\ [][GatewayNext]_vars

(***************************************************************************)
(* ResumeSpec: one user uploads resumes through ResumeUploadStep and sets  *)
(* the master resume, one operation after the other.                       *)
(***************************************************************************)
\* the "Upload Resume" button, while nothing else is in flight
UploadClick == calls = EmptyBag /\ handleUpload

ResumeInit == GatewayInit /\ session = "u1"

ResumeNext ==
    \/ SelectFile
    \/ UploadClick
    \/ UploadGetUser
    \/ UploadUpload
    \/ GetUser
    \/ ResumeInsert
    \/ UploadSettled
    \/ mountResumeUploadStep
    \/ CallSetMasterResume
    \/ MasterUnset
    \/ MasterSet
    \/ CallerResumes

ResumeSpec == ResumeInit /\ [][ResumeNext]_vars

(***************************************************************************)
(* Agent bridge (app/api/[...path]/route.ts).                              *)
(*                                                                         *)
(* A JSON value is [type, value, props]: value is the text of a scalar,    *)
(* props the properties of an object (for an array: the named properties   *)
(* set on it, which JSON.stringify does not write).  A request body is a   *)
(* text: [valid, json, ws], valid when it parses, json what it parses to,  *)
(* ws whether it carries insignificant whitespace.                         *)
(***************************************************************************)
EmptyProps == [k \in {} |-> ""]

JNull == [type |-> "null", value |-> "", props |-> EmptyProps]

JScalar(type, value) == [JNull EXCEPT !.type = type, !.value = value]

JUndefined == JScalar("undefined", "")
JStr(str) == JScalar("string", str)
JNum(digits) == JScalar("number", digits)
JBool(text) == JScalar("boolean", text)
JArr == JScalar("array", "")
JObj(props) == [JNull EXCEPT !.type = "object", !.props = props]

\* !v is false
Truthy(v) ==
    ~ \/ v.type \in {"undefined", "null"}
      \/ v.type = "boolean" /\ v.value = "false"
      \/ v.type = "number" /\ v.value = "0"
      \/ v.type = "string" /\ v.value = ""

\* o.k of a value that is neither null nor undefined
Get(o, k) == IF k \in DOMAIN o.props THEN o.props[k] ELSE JUndefined

\* o.k = v succeeds on objects and arrays and throws a TypeError on a
\* primitive (the module is an ES module: strict mode)
CanSet(o) == o.type \in {"object", "array"}

Set(o, k, v) ==
    [o EXCEPT !.props = [x \in (DOMAIN o.props) \cup {k} |->
                            IF x = k THEN v ELSE o.props[x]]]

\* JSON.stringify followed by the reader's JSON.parse: the named properties
\* of an array are not written
RECURSIVE Written(_)
Written(v) ==
    CASE v.type = "array" -> JArr
      [] v.type = "object" ->
            [v EXCEPT !.props = [k \in DOMAIN v.props |-> Written(v.props[k])]]
      [] OTHER -> v

\* JSON.stringify(body)
stringify(v) == [valid |-> TRUE, json |-> Written(v), ws |-> FALSE]

BodyMethods == {"POST", "PATCH", "PUT"}

\* an injection that writes the session's user id over whatever the body
\* carries (the behaviour C8 excludes)
InjectInto_overwrite(body, userId) ==
    LET config == IF Truthy(Get(body, "config")) THEN Get(body, "config")
                  ELSE JObj(EmptyProps)
        configurable == IF Truthy(Get(config, "configurable"))
                        THEN Get(config, "configurable")
                        ELSE JObj(EmptyProps)
    IN  IF ~CanSet(body) \/ ~CanSet(config) \/ ~CanSet(configurable)
        THEN [throws |-> TRUE, body |-> body]
        ELSE [throws |-> FALSE,
              body |-> Set(body, "config",
                           Set(config, "configurable",
                               Set(configurable, "user_id", JStr(userId))))]

\* lines 40-52 of injectUserConfig on the parsed body: the body after the
\* three assignments, or "throws" when one of them throws
InjectInto(body, userId) ==
    LET noConfig == ~Truthy(Get(body, "config"))
        b1 == IF noConfig THEN Set(body, "config", JObj(EmptyProps)) ELSE body
        config == Get(b1, "config")
        noConfigurable == ~Truthy(Get(config, "configurable"))
        config2 == IF noConfigurable
                   THEN Set(config, "configurable", JObj(EmptyProps))
                   ELSE config
        configurable == Get(config2, "configurable")
        noUserId == ~Truthy(Get(configurable, "user_id"))
        configurable2 == IF noUserId
                         THEN Set(configurable, "user_id", JStr(userId))
                         ELSE configurable
    IN  IF \/ noConfig /\ ~CanSet(body)
           \/ noConfigurable /\ ~CanSet(config)
           \/ noUserId /\ ~CanSet(configurable)
        THEN [throws |-> TRUE, body |-> body]
        ELSE [throws |-> FALSE,
              body |-> Set(b1, "config", Set(config2, "configurable", configurable2))]

\* an injectUserConfig that reads the body before it looks up the session
\* (the behaviour C16 excludes: the request passed on has a consumed body)
injectUserConfig_readsBodyFirst(req) ==
    IF req.method \notin BodyMethods
    THEN [modified |-> None, bodyUsed |-> FALSE]
    ELSE LET body == IF req.body.valid THEN req.body.json ELSE JNull
             r == InjectInto(body, session)
         IN  IF req.lookupThrows \/ session = NoUser \/ ~Truthy(body) \/ r.throws
             THEN [modified |-> None, bodyUsed |-> TRUE]
             ELSE [modified |-> Some([body |-> stringify(r.body),
                                       userId |-> session]),
                   bodyUsed |-> TRUE]

\* injectUserConfig: None for null, else the body to send and the user id;
\* bodyUsed tells whether req.json() has read the body of req
injectUserConfig(req) ==
    IF req.method \notin BodyMethods
    THEN [modified |-> None, bodyUsed |-> FALSE]
    ELSE IF req.lookupThrows \/ session = NoUser
    THEN [modified |-> None, bodyUsed |-> FALSE]
    ELSE LET body == IF req.body.valid THEN req.body.json ELSE JNull
         IN  IF ~Truthy(body)
             THEN [modified |-> None, bodyUsed |-> TRUE]
             ELSE LET r == InjectInto(body, session)
                  IN  IF r.throws
                      THEN [modified |-> None, bodyUsed |-> TRUE]
                      ELSE [modified |-> Some([body |-> stringify(r.body),
                                                userId |-> session]),
                            bodyUsed |-> TRUE]

\* the request handed to passthrough.POST / PUT / PATCH
Forward(req) ==
    LET r == injectUserConfig(req)
    IN  IF r.modified # None
        THEN [method |-> req.method, headers |-> req.headers,
              body |-> r.modified[1].body, bodyUsed |-> FALSE, rebuilt |-> TRUE]
        ELSE [method |-> req.method, headers |-> req.headers,
              body |-> req.body, bodyUsed |-> r.bodyUsed, rebuilt |-> FALSE]

\* export const POST / PUT / PATCH
handleBodyMethod(method) ==
    /\ inbound # None /\ outbound = None
    /\ inbound[1].method = method
    /\ outbound' = Some(Forward(inbound[1]))
    /\ UNCHANGED <<flowVars, viewVars, storeVars, session, calls, resumeVars,
                   uploadVars, inbound, pageVars>>

POST == handleBodyMethod("POST")

PUT == handleBodyMethod("PUT")

PATCH == handleBodyMethod("PATCH")

\* export const GET / DELETE / OPTIONS = passthrough.GET / DELETE / OPTIONS
passthroughDirect(method) ==
    /\ inbound # None /\ outbound = None
    /\ inbound[1].method = method
    /\ outbound' = Some([method |-> method, headers |-> inbound[1].headers,
                         body |-> inbound[1].body, bodyUsed |-> FALSE,
                         rebuilt |-> FALSE])
    /\ UNCHANGED <<flowVars, viewVars, storeVars, session, calls, resumeVars,
                   uploadVars, inbound, pageVars>>

GET == passthroughDirect("GET")

DELETE == passthroughDirect("DELETE")

OPTIONS == passthroughDirect("OPTIONS")

\* a request arrives
receive(req) ==
    /\ inbound = None
    /\ inbound' = Some(req)
    /\ UNCHANGED <<flowVars, viewVars, storeVars, session, calls, resumeVars,
                   uploadVars, outbound, pageVars>>

(***************************************************************************)
(* BridgeSpec: one request arrives at the bridge and is forwarded.         *)
(***************************************************************************)
\* the values a property of the body may hold besides an object
Odd == {JNull, JStr(""), JStr("x"), JNum("0"), JBool("false"), JArr}

UserIdValues == {JNull, JStr(""), JNum("0"), JStr("u1"), JStr("u2")}

Configurables ==
    Odd \cup {JObj(EmptyProps)}
        \cup {JObj([k \in {"user_id"} |-> v]) : v \in UserIdValues}
        \cup {JObj([k \in {"user_id", "thread_id"} |->
                      IF k = "user_id" THEN v ELSE JStr("t")]) : v \in UserIdValues}

Configs ==
    Odd \cup {JObj(EmptyProps)}
        \cup {JObj([k \in {"configurable"} |-> c]) : c \in Configurables}

Messages == JArr

Bodies ==
    {JNull, JStr("x"), JNum("0"), JBool("true"), JArr, JObj(EmptyProps),
     JObj([k \in {"messages"} |-> Messages])}
        \cup {JObj([k \in {"messages", "config"} |->
                      IF k = "config" THEN c ELSE Messages]) : c \in Configs}

\* the texts of request bodies: what does not parse, and the bodies, with
\* and without insignificant whitespace
BodyTexts ==
    {[valid |-> FALSE, json |-> JNull, ws |-> FALSE]}
        \cup {[valid |-> TRUE, json |-> b, ws |-> w] : b \in Bodies, w \in BOOLEAN}

Methods == {"GET", "POST", "PUT", "PATCH", "DELETE", "OPTIONS"}

Requests ==
    [method : Methods, headers : {"h"}, body : BodyTexts, lookupThrows : BOOLEAN]

Receive == \E req \in Requests : receive(req)

BridgeInit == GatewayInit

BridgeNext ==
    \/ Receive
    \/ GET
    \/ POST
    \/ PUT
    \/ PATCH
    \/ DELETE
    \/ OPTIONS

BridgeSpec == BridgeInit /\ [][BridgeNext]_vars

(***************************************************************************)
(* FormSpec: PersonalInfoStep is submitted with the form filled in every   *)
(* way the bounds allow.                                                   *)
(***************************************************************************)
MaxPhoneLen == 3

RECURSIVE SeqsUpTo(_, _)
SeqsUpTo(alphabet, n) ==
    IF n = 0 THEN {<<>>}
    ELSE LET shorter == SeqsUpTo(alphabet, n - 1)
         IN  shorter \cup {Append(s, a) : s \in shorter, a \in alphabet}

FormNames == {<<>>, <<" ">>, <<"a">>, <<" ", "a">>, <<"a", " ">>, <<" ", " ">>}

FormPhones == SeqsUpTo({"+", "5", " ", "-", "(", "x"}, MaxPhoneLen)

FormUrls ==
    {<<>>, <<" ">>, LinkedinNeedle, SubSeq(LinkedinNeedle, 1, 11),
     <<"x">> \o LinkedinNeedle \o <<"/">>}

FormInit ==
    /\ currentStep = 1
    /\ onboardingData = [personalInfo |-> None, skills |-> None]
    /\ loading = FALSE
    /\ error = ""
    /\ route = "/onboarding"
    /\ formData \in [full_name : FormNames, phone_number : FormPhones,
                     linkedin_url : FormUrls]
    /\ formErrors = NoErrors
    /\ selectedSkills = <<>>
    /\ calls = EmptyBag
    /\ session = "u1"
    /\ profiles = {NewProfile(u) : u \in Users}
    /\ userSkills \in InitialUserSkills
    /\ resumes = {}
    /\ storage = {}
    /\ files = None
    /\ upLoading = FALSE
    /\ upError = <<>>
    /\ uploadSuccess = FALSE
    /\ inbound = None
    /\ outbound = None
    /\ page = "none"

FormNext ==
    \/ handleSubmit
    \/ GetUser
    \/ ProfileUpdate
    \/ PersonalInfoSettled

FormSpec == FormInit /\ [][FormNext]_vars

(***************************************************************************)
(* Claims about the onboarding flow, checked under Spec.                   *)
(***************************************************************************)
\* the step of the behaviour is the continuation of invocation c
Settles(c) ==
    /\ c \in BagToSet(calls)
    /\ c.pc = "done"
    /\ calls' = calls (-) SetToBag({c})

ProfileOf(u) == CHOOSE r \in profiles : r.id = u

\* C1: at every reachable state at most one transition-persistence
\* operation of OnboardingFlow is in flight (a transition triggered while
\* loading is true starts no further persistence call).
C1_AtMostOneInFlight == BagCardinality(calls) <= 1

\* C2: the fragment is stored in onboardingData.personalInfo, and the step
\* moves from 1 to 2, only in the continuation of a profile update that
\* returned, whose row then holds the fragment; the continuation of a
\* profile update that threw leaves the step at 1 and onboardingData as it
\* is, sets a non-empty error and clears loading.
C2_PersonalInfoStep ==
    /\ (onboardingData'.personalInfo # onboardingData.personalInfo
          \/ (currentStep = 1 /\ currentStep' = 2))
       => \E c \in BagToSet(calls) :
             /\ Settles(c)
             /\ c.caller = "handlePersonalInfoNext"
             /\ c.out.state = "returned"
             /\ onboardingData'.personalInfo = Some(c.data)
             /\ currentStep' = 2
    /\ \A c \in BagToSet(calls) :
          (Settles(c) /\ c.caller = "handlePersonalInfoNext")
          => IF c.out.state = "returned"
             THEN /\ currentStep' = 2
                  /\ onboardingData'.personalInfo = Some(c.data)
                  /\ loading' = FALSE
             ELSE /\ currentStep' = 1
                  /\ onboardingData' = onboardingData
                  /\ error' # ""
                  /\ loading' = FALSE

C2_PersonalInfoTransition == [][C2_PersonalInfoStep]_vars

\* C3: whenever the continuation of handleSkillsNext moves the flow to
\* step 4, the stored skill rows of the user are exactly the submitted set.
C3_Step4OnlyAfterFullReplace ==
    [][\A c \in BagToSet(calls) :
          (Settles(c) /\ c.caller = "handleSkillsNext" /\ c.out.state = "returned"
             /\ BagCardinality(calls) = 1)
          => SkillRowsOf(userSkills, c.user)
               = SeqToBag(skillsWithUserId(c.skills, c.user))]_vars

\* C4: the route changes only in the continuation of a completion update
\* that returned, and then the profile has onboarding_completed = true; the
\* continuation of a completion update that threw leaves the route as it
\* is and the step at 4 and sets a non-empty error; and the step in which a
\* completion update throws leaves the profiles as they are.
C4_CompleteStep ==
    /\ route' # route
       => \E c \in BagToSet(calls) :
             /\ Settles(c)
             /\ c.caller = "handleComplete"
             /\ c.out.state = "returned"
             /\ ProfileOf(c.user).onboarding_completed
    /\ \A c \in BagToSet(calls) :
          (Settles(c) /\ c.caller = "handleComplete" /\ c.out.state = "thrown")
          => /\ route' = route
             /\ currentStep' = 4
             /\ error' # ""
    /\ \A c \in BagToSet(calls') :
          (c.caller = "handleComplete" /\ c.out.state = "thrown"
             /\ CopiesIn(c, calls') > CopiesIn(c, calls))
          => profiles' = profiles

C4_CompleteTransition == [][C4_CompleteStep]_vars

(***************************************************************************)
(* Claims about the gateway, checked under GatewaySpec and ResumeSpec.     *)
(***************************************************************************)
\* C5: once updateUserSkillsClient(S) has returned, the stored user_skills
\* rows of the caller are exactly the rows of S.
C5_ReplacedExactly ==
    \A c \in BagToSet(calls) :
        (c.op = "updateUserSkillsClient" /\ c.pc = "done" /\ c.out.state = "returned")
        => SkillRowsOf(userSkills, c.user) = SeqToBag(skillsWithUserId(c.skills, c.user))

MasterRows(u) == {r \in resumes : r.user_id = u /\ r.is_master}

\* C6: when no operation is in flight, at most one resume of the user has
\* is_master = true.
C6_AtMostOneMaster == calls = EmptyBag => Cardinality(MasterRows("u1")) <= 1

\* C7: without a session every gateway operation is either still at its
\* session lookup or has thrown 'User not authenticated', and neither the
\* store nor the storage has been touched.
C7_UnauthenticatedShortCircuit ==
    session = NoUser
    => /\ \A c \in BagToSet(calls) :
             \/ c.pc = "getUser"
             \/ c.pc = "done" /\ c.out = Thrown(<<"User not authenticated">>)
       /\ profiles = {NewProfile(u) : u \in Users}
       /\ userSkills \in InitialUserSkills
       /\ resumes = {}
       /\ storage = {}

(***************************************************************************)
(* Claims about the agent bridge, checked under BridgeSpec.                *)
(***************************************************************************)
\* a body-carrying request has been forwarded for a resolved session and
\* its body parsed to a JSON object
InjectionCase ==
    /\ inbound # None /\ outbound # None
    /\ inbound[1].method \in BodyMethods
    /\ session # NoUser /\ ~inbound[1].lookupThrows
    /\ inbound[1].body.valid
    /\ inbound[1].body.json.type = "object"

InboundJson == inbound[1].body.json

IsObjectOrFalsy(v) == ~Truthy(v) \/ v.type = "object"

\* config and config.configurable are each absent, falsy or an object
ConfigShaped(b) ==
    /\ IsObjectOrFalsy(Get(b, "config"))
    /\ Truthy(Get(b, "config")) => IsObjectOrFalsy(Get(Get(b, "config"), "configurable"))

OrEmptyObject(v) == IF Truthy(v) THEN v ELSE JObj(EmptyProps)

\* b with config.configurable.user_id = u, config and config.configurable
\* replaced by objects where they are absent or falsy
WithUserId(b, u) ==
    LET config == OrEmptyObject(Get(b, "config"))
        configurable == OrEmptyObject(Get(config, "configurable"))
    IN  Set(b, "config", Set(config, "configurable",
                             Set(configurable, "user_id", JStr(u))))

UserIdOf(b) == Get(Get(Get(b, "config"), "configurable"), "user_id")

C9_ForwardedCarriesSessionUser ==
    (InjectionCase /\ ConfigShaped(InboundJson))
    => /\ outbound[1].body.valid
       /\ UserIdOf(outbound[1].body.json) = JStr(session)

(***************************************************************************)
(* Claims about PersonalInfoStep, checked under FormSpec.                  *)
(***************************************************************************)
HasNonSpace(s) == \E i \in DOMAIN s : ~IsSpace(s[i])

\* an optional leading '+' followed by characters of the class only
PlusThenClass(s) == \A i \in DOMAIN s : (i = 1 /\ s[1] = "+") \/ PhoneClass(s[i])

\* the step is a submission of the form on step 1: no invocation of the
\* bag advances or leaves
SubmitStep == currentStep = 1 /\ calls \sqsubseteq calls'

onNextCalled == BagCardinality(calls') = BagCardinality(calls) + 1

\* C10 as stated: onNext is called iff full_name is non-empty after
\* trimming, phone_number is non-empty and an optional '+' followed by
\* class characters only, and linkedin_url is empty or contains
\* 'linkedin.com'.
C10_OnNextIffValid ==
    [][SubmitStep =>
          (onNextCalled <=>
             /\ HasNonSpace(formData.full_name)
             /\ formData.phone_number # <<>>
             /\ PlusThenClass(formData.phone_number)
             /\ (formData.linkedin_url = <<>>
                   \/ includes(formData.linkedin_url, LinkedinNeedle)))]_vars

\* C10 amended: onNext is called iff full_name and phone_number are
\* non-empty after trimming, phone_number is an optional '+' followed by
\* one or more class characters only, and linkedin_url is empty or contains
\* 'linkedin.com'; the invocation then carries the form as typed.
C10_OnNextIffValidTrimmed ==
    [][SubmitStep =>
          /\ onNextCalled <=>
                /\ HasNonSpace(formData.full_name)
                /\ HasNonSpace(formData.phone_number)
                /\ PlusThenClass(formData.phone_number)
                /\ Len(formData.phone_number) >
                      (IF formData.phone_number[1] = "+" THEN 1 ELSE 0)
                /\ (formData.linkedin_url = <<>>
                      \/ includes(formData.linkedin_url, LinkedinNeedle))
          /\ onNextCalled =>
                \E c \in BagToSet(calls') :
                   /\ c.data = formData /\ c.pc = "getUser"
                   /\ CopiesIn(c, calls') = CopiesIn(c, calls) + 1]_vars

\* C10 witness: a form with a '+' phone number and a LinkedIn URL has been
\* submitted and its invocation is in flight
C10_Witness ==
    /\ currentStep = 1
    /\ formErrors = NoErrors
    /\ Len(formData.phone_number) > 1 /\ formData.phone_number[1] = "+"
    /\ includes(formData.linkedin_url, LinkedinNeedle)
    /\ \E c \in BagToSet(calls) : c.data = formData /\ c.caller = "handlePersonalInfoNext"

(***************************************************************************)
(* Claims about navigation between the steps, checked under Spec.          *)
(***************************************************************************)
\* C11: on each of the steps 2, 3 and 4 the Back action is available to the
\* user.
C11_BackAvailable ==
    (route = "/onboarding" /\ currentStep \in {2, 3, 4}) => ENABLED onBack

\* the selection as a set of (skill, level) entries
SelectionOf(sel) == {sel[i] : i \in DOMAIN sel}

\* the selection SkillsStep shows when it is mounted with the data d
ShownOnEntry(d) ==
    IF d.skills = None THEN {} ELSE SelectionOf(InitialSelected(d.skills[1]))

\* C12: the selection held when step 3 is left by Back is the selection shown
\* when step 3 is entered again from step 2: leaving keeps it, staying on
\* step 2 does not change it, and entering shows it.
C12_BackKeepsSelection ==
    [][/\ (currentStep = 3 /\ currentStep' = 2)
             => ShownOnEntry(onboardingData') = SelectionOf(selectedSkills)
       /\ (currentStep = 2 /\ currentStep' = 2)
             => ShownOnEntry(onboardingData') = ShownOnEntry(onboardingData)
       /\ (currentStep = 2 /\ currentStep' = 3)
             => SelectionOf(selectedSkills') = ShownOnEntry(onboardingData)]_vars

(***************************************************************************)
(* Server-side operations of the gateway (lib/database/queries.ts).  They  *)
(* take the user id as an argument and make no session lookup: an          *)
(* invocation starts at its first store statement with user = userId.      *)
(***************************************************************************)
\* updateProfile: .update({...updates}).eq('id', userId).select().single()
updateProfile_update(c) ==
    /\ c.op = "updateProfile" /\ c.pc = "update"
    /\ \E storeOk \in BOOLEAN, m \in StoreMessages :
          LET rows == ProfileRows(c.user)
          IN  IF storeOk /\ Cardinality(rows) = 1
              THEN /\ profiles' = (profiles \ rows) \cup
                                  {ApplyUpdates(r, c.updates) : r \in rows}
                   /\ calls' = Replace(c, [c EXCEPT !.pc = "done", !.out = Returned])
              ELSE /\ profiles' = profiles
                   /\ calls' = Replace(c, [c EXCEPT !.pc = "done", !.out = Thrown(<<"Failed to update profile: ", m>>)])
    /\ UNCHANGED <<flowVars, viewVars, userSkills, session>>
    /\ UNCHANGED restVars

\* updateUserSkills: await ...delete().eq('user_id', userId); the result of
\* the statement is not looked at
updateUserSkills_delete(c) ==
    /\ c.op = "updateUserSkills" /\ c.pc = "delete"
    /\ \E storeOk \in BOOLEAN :
          userSkills' = IF storeOk THEN DeleteUserSkills(userSkills, c.user)
                        ELSE userSkills
    /\ calls' = IF Len(c.skills) > 0
                THEN Replace(c, [c EXCEPT !.pc = "insert"])
                ELSE Replace(c, [c EXCEPT !.pc = "done", !.out = Returned])
    /\ UNCHANGED <<flowVars, viewVars, profiles, session>>
    /\ UNCHANGED restVars

\* updateUserSkills: .insert(skillsWithUserId).select()
updateUserSkills_insert(c) ==
    /\ c.op = "updateUserSkills" /\ c.pc = "insert"
    /\ \E storeOk \in BOOLEAN, m \in StoreMessages :
          LET rows == skillsWithUserId(c.skills, c.user)
          IN  IF storeOk /\ BagCardinality(userSkills) + Len(rows) <= MaxRows
              THEN /\ userSkills' = InsertUserSkills(userSkills, rows)
                   /\ calls' = Replace(c, [c EXCEPT !.pc = "done", !.out = Returned])
              ELSE /\ userSkills' = userSkills
                   /\ calls' = Replace(c, [c EXCEPT !.pc = "done", !.out = Thrown(<<"Failed to update user skills: ", m>>)])
    /\ UNCHANGED <<flowVars, viewVars, profiles, session>>
    /\ UNCHANGED restVars

\* createResume: .insert(resumeData).select().single(); user_id is a field
\* of resumeData
createResume_insert(c) ==
    /\ c.op = "createResume" /\ c.pc = "insertResume"
    /\ \E storeOk \in BOOLEAN, m \in StoreMessages :
          IF storeOk /\ Cardinality(resumes) < MaxResumes
          THEN /\ resumes' = resumes \cup
                     {[id |-> Cardinality(resumes) + 1, user_id |-> c.user,
                       file_url |-> c.resumeData.file_url,
                       file_name |-> c.resumeData.file_name,
                       is_master |-> c.resumeData.is_master]}
               /\ calls' = Replace(c, [c EXCEPT !.pc = "done", !.out = Returned])
          ELSE /\ resumes' = resumes
               /\ calls' = Replace(c, [c EXCEPT
                      !.pc = "done",
                      !.out = Thrown(<<"Failed to create resume: ", m>>)])
    /\ UNCHANGED <<flowVars, viewVars, storeVars, session, storage, uploadVars,
                   bridgeVars, pageVars>>

(***************************************************************************)
(* ServerSpec: the session of u1 calls mutations of the gateway, client-   *)
(* side ones and the server-side ones with a user id of its choice, one    *)
(* after the other.                                                        *)
(***************************************************************************)
\* an invocation of a server-side operation for userId
ServerCall(op, userId) ==
    [NewCall(op, "direct") EXCEPT !.pc = FirstStatement(op \o "Client"), !.user = userId]

CallUpdateProfileFor ==
    \E userId \in Users :
        callDirect([ServerCall("updateProfile", userId) EXCEPT
                       !.updates = [NoUpdates EXCEPT !.full_name = Some(<<"A">>)]])

CallUpdateUserSkillsFor ==
    \E userId \in Users, skills \in GatewaySkillSets :
        callDirect([ServerCall("updateUserSkills", userId) EXCEPT !.skills = skills])

CallCreateResumeFor ==
    \E userId \in Users, resumeData \in GatewayResumeData :
        callDirect([ServerCall("createResume", userId) EXCEPT !.resumeData = resumeData])

ServerProfileUpdate == \E c \in BagToSet(calls) : updateProfile_update(c)

ServerSkillsDelete == \E c \in BagToSet(calls) : updateUserSkills_delete(c)

ServerSkillsInsert == \E c \in BagToSet(calls) : updateUserSkills_insert(c)

ServerResumeInsert == \E c \in BagToSet(calls) : createResume_insert(c)

ServerInit == GatewayInit /\ session = "u1"

ServerNext ==
    \/ CallUpdateProfileFor
    \/ CallUpdateUserSkillsFor
    \/ CallCreateResumeFor
    \/ ServerProfileUpdate
    \/ ServerSkillsDelete
    \/ ServerSkillsInsert
    \/ ServerResumeInsert
    \/ CallUpdateProfile
    \/ CallCreateResume
    \/ GetUser
    \/ ProfileUpdate
    \/ ResumeInsert
    \/ CallerResumes

ServerSpec == ServerInit /\ [][ServerNext]_vars

(***************************************************************************)
(* Claims about the identity the gateway writes for, under ServerSpec.     *)
(***************************************************************************)
\* the rows of the store that a step creates, changes or deletes
ProfilesWritten == (profiles \ profiles') \cup (profiles' \ profiles)

SkillRowsWritten ==
    {r \in BagToSet(userSkills) \cup BagToSet(userSkills') :
        CopiesIn(r, userSkills) # CopiesIn(r, userSkills')}

ResumesWritten == (resumes \ resumes') \cup (resumes' \ resumes)

\* C13: every row of profiles, user_skills and resumes that a step of the
\* gateway creates, changes or deletes belongs to the user of the session.
C13_WritesOnlyForSessionUser ==
    [][/\ \A r \in ProfilesWritten : r.id = session
       /\ \A r \in SkillRowsWritten : r.user_id = session
       /\ \A r \in ResumesWritten : r.user_id = session]_vars

(***************************************************************************)
(* Claims about failures of store statements, under GatewaySpec and Spec.  *)
(***************************************************************************)
\* the step runs a store statement of invocation c and the statement has no
\* effect although rows were there for it to work on: the store failed it
StatementFailed(c) ==
    CASE c.pc = "delete" ->
            SkillRowsOf(userSkills, c.user) # EmptyBag /\ userSkills' = userSkills
      [] c.pc = "insert" -> userSkills' = userSkills
      [] c.pc = "unset" -> MasterRows(c.user) # {} /\ resumes' = resumes
      [] c.pc = "insertResume" -> resumes' = resumes
      [] OTHER -> FALSE

\* C14: an invocation whose store statement fails is thrown by that
\* statement: it neither goes on to its next statement nor returns.
C14_FailedStatementThrows ==
    [][\A c \in BagToSet(calls), d \in BagToSet(calls') :
          (c # d /\ calls' = Replace(c, d) /\ StatementFailed(c))
          => d.out.state = "thrown"]_vars

(***************************************************************************)
(* Step2Spec: the user is on step 2, chooses files, uploads (the store     *)
(* and the storage may fail) and proceeds or goes back.                    *)
(***************************************************************************)
\* a handleNext of ResumeUploadStep that does not call onNext (the
\* behaviour C15 excludes)
ResumeUploadStep_handleNext_stays ==
    /\ UserCan /\ currentStep = 2
    /\ uploadSuccess
    /\ upError' = <<"Please upload a resume before continuing.">>
    /\ UNCHANGED <<flowVars, viewVars, storeVars, session, calls, resumeVars,
                   files, upLoading, uploadSuccess, bridgeVars, pageVars>>

\* ResumeUploadStep.handleNext, the handler of the Continue button, which is
\* rendered in place of the upload button once uploadSuccess is set
ResumeUploadStep_handleNext ==
    /\ UserCan /\ currentStep = 2
    /\ uploadSuccess
    /\ IF uploadSuccess
       THEN handleResumeUploadNext
       ELSE /\ upError' = <<"Please upload a resume before continuing.">>
            /\ UNCHANGED <<flowVars, viewVars, storeVars, session, calls,
                           resumeVars, files, upLoading, uploadSuccess, bridgeVars,
                           pageVars>>

Step2Next ==
    \/ SelectFile
    \/ UploadClick
    \/ UploadGetUser
    \/ UploadUpload
    \/ GetUser
    \/ ResumeInsert
    \/ UploadSettled
    \/ handleSkip
    \/ ResumeUploadStep_handleNext
    \/ onBack

Step2Spec == ResumeInit /\ [][Step2Next]_vars

(***************************************************************************)
(* Claims about step 2, checked under Step2Spec.                           *)
(***************************************************************************)
\* C15: on step 2 a control to proceed is always there (Skip, and Continue
\* once an upload succeeded), and a step of either control moves the flow
\* to step 3, starts no gateway invocation and writes nothing to the store.
C15_ProceedAlwaysAdvances ==
    /\ []((route = "/onboarding" /\ currentStep = 2)
             => (ENABLED handleSkip /\ (uploadSuccess => ENABLED ResumeUploadStep_handleNext)))
    /\ [][(currentStep = 2 /\ (handleSkip \/ ResumeUploadStep_handleNext))
             => /\ currentStep' = 3
                /\ calls' = calls
                /\ UNCHANGED <<storeVars, resumeVars>>]_vars

\* C15 witness: the flow is on step 3 after an upload attempt failed on
\* step 2 and no upload succeeded
C15_Witness ==
    /\ currentStep = 3
    /\ upError # <<>>
    /\ ~uploadSuccess
    /\ resumes = {}

(***************************************************************************)
(* Claims about requests without a session, checked under BridgeSpec.      *)
(***************************************************************************)
\* a body-carrying request has arrived and no session identity resolves
NoIdentityCase ==
    /\ inbound # None
    /\ inbound[1].method \in BodyMethods
    /\ session = NoUser \/ inbound[1].lookupThrows

\* C16: a body-carrying request without a resolvable session identity can
\* be forwarded, and what is forwarded is the inbound request itself:
\* method, headers and body text as received, the body not read.
C16_NoIdentityForwardedUnchanged ==
    /\ (NoIdentityCase /\ outbound = None) => ENABLED (POST \/ PUT \/ PATCH)
    /\ (NoIdentityCase /\ outbound # None)
          => /\ outbound[1].method = inbound[1].method
             /\ outbound[1].headers = inbound[1].headers
             /\ outbound[1].body = inbound[1].body
             /\ ~outbound[1].bodyUsed
             /\ ~outbound[1].rebuilt

\* C16 witness: a POST without a session whose body carries a user id and
\* insignificant whitespace has been forwarded
C16_Witness ==
    /\ NoIdentityCase /\ outbound # None
    /\ session = NoUser
    /\ inbound[1].method = "POST"
    /\ inbound[1].body.valid /\ inbound[1].body.ws
    /\ UserIdOf(inbound[1].body.json) = JStr("u2")

(***************************************************************************)
(* Claims about partial failure and stale results, checked under Spec.     *)
(***************************************************************************)
\* invocation c was thrown by the insert statement of the skills replace
InsertFailed(c) ==
    /\ c.out.state = "thrown"
    /\ c.out.message[1] = "Failed to update user skills: "

\* C17: when the skills replace of handleSkillsNext was thrown by its insert
\* statement after its delete emptied the user's stored skills, the
\* continuation leaves the flow on step 3 with an error and
\* onboardingData.skills as it was.
C17_InsertFailureStaysOnStep3 ==
    [][\A c \in BagToSet(calls) :
          (/\ Settles(c)
           /\ c.caller = "handleSkillsNext"
           /\ InsertFailed(c)
           /\ SkillRowsOf(userSkills, c.user) = EmptyBag)
          => /\ currentStep' = 3
             /\ error' # ""
             /\ onboardingData' = onboardingData]_vars

(***************************************************************************)
(* Overlapping invocations of setMasterResumeClient: the function is       *)
(* exported and async, nothing serialises two callers of one user.         *)
(***************************************************************************)
\* a caller invokes setMasterResumeClient(resumeId) while other invocations
\* may be in flight
callOverlapping(call) ==
    /\ BagCardinality(calls) < MaxInFlight
    /\ calls' = calls (+) SetToBag({call})
    /\ UNCHANGED <<flowVars, viewVars, storeVars, session, resumeVars, uploadVars,
                   bridgeVars, pageVars>>

CallSetMasterResumeOverlapping ==
    \E resumeId \in 1..MaxResumes :
        callOverlapping([NewCall("setMasterResumeClient", "direct") EXCEPT
                            !.resumeId = resumeId])

MasterRaceNext ==
    \/ CallCreateResume
    \/ CallSetMasterResumeOverlapping
    \/ CallerResumes
    \/ GetUser
    \/ ResumeInsert
    \/ MasterUnset
    \/ MasterSet

MasterRaceSpec == GatewayInit /\ [][MasterRaceNext]_vars

(***************************************************************************)
(* Claims about the master flag of resumes, checked under MasterRaceSpec   *)
(* (C18) and GatewaySpec (C19).                                            *)
(***************************************************************************)
\* invocation c of setMasterResumeClient has returned
MasterReturned(c) ==
    c.op = "setMasterResumeClient" /\ c.pc = "done" /\ c.out.state = "returned"

\* the row of resumes that invocation c names is a master row of its user
NamedRowIsMaster(rs, c) ==
    \E r \in rs : r.id = c.resumeId /\ r.user_id = c.user /\ r.is_master

\* C18: two setMasterResumeClient calls of one user with different resume
\* ids race: when one has returned with its row master and the other, already
\* past its unset statement, runs its set statement successfully, both have
\* returned and both rows are master rows.
C18_InterleavedSetsLeaveTwoMasters ==
    [][\A c \in BagToSet(calls), d \in BagToSet(calls) :
          (/\ c.op = "setMasterResumeClient" /\ c.pc = "set"
           /\ MasterReturned(d)
           /\ d.user = c.user /\ d.resumeId # c.resumeId
           /\ NamedRowIsMaster(resumes, d)
           /\ calls' = Replace(c, [c EXCEPT !.pc = "done", !.out = Returned]))
          => /\ NamedRowIsMaster(resumes', c)
             /\ NamedRowIsMaster(resumes', d)
             /\ Cardinality(MasterRows(c.user)') >= 2]_vars

C18_Witness ==
    \E c \in BagToSet(calls), d \in BagToSet(calls) :
        /\ MasterReturned(c) /\ MasterReturned(d)
        /\ c.user = d.user /\ c.resumeId # d.resumeId
        /\ NamedRowIsMaster(resumes, c)
        /\ NamedRowIsMaster(resumes, d)


\* C19: with one invocation at a time, when setMasterResumeClient(r) has
\* returned, r is a master row and the only master row of the caller.
C19_ReturnedMeansOnlyMaster ==
    \A c \in BagToSet(calls) :
        (MasterReturned(c) /\ BagCardinality(calls) = 1)
        => /\ NamedRowIsMaster(resumes, c)
           /\ \A r \in MasterRows(c.user) : r.id = c.resumeId


(***************************************************************************)
(* Claims about Back during a transition, checked under Spec.              *)
(***************************************************************************)
\* invocation c belongs to the transition out of step 1 or out of step 3 and
\* its persistence operation has succeeded
TransitionSucceeded(c) ==
    /\ c.caller \in {"handlePersonalInfoNext", "handleSkillsNext"}
    /\ c.pc = "done"
    /\ c.out.state = "returned"

\* C20: Back leaves the invocations in flight as they are; the continuation
\* of a finished invocation can run on whatever step the flow shows, and
\* when the operation succeeded it stores the submitted data and sets the
\* step to the transition's target (2 after personal info, 4 after skills).
C20_BackDoesNotCancel ==
    /\ [](\A c \in BagToSet(calls) :
             /\ (c.caller = "handlePersonalInfoNext" /\ c.pc = "done")
                   => ENABLED handlePersonalInfoNext_settled(c)
             /\ (c.caller = "handleSkillsNext" /\ c.pc = "done")
                   => ENABLED handleSkillsNext_settled(c))
    /\ [][/\ onBack => calls' = calls
          /\ \A c \in BagToSet(calls) :
                (Settles(c) /\ TransitionSucceeded(c))
                => IF c.caller = "handlePersonalInfoNext"
                   THEN /\ currentStep' = 2
                        /\ onboardingData'.personalInfo = Some(c.data)
                   ELSE /\ currentStep' = 4
                        /\ onboardingData'.skills = Some(c.skills)]_vars

\* Back was pressed twice while the skills operation was in flight; the
\* operation has succeeded and its continuation is due on step 1
C20_Witness ==
    /\ currentStep = 1
    /\ \E c \in BagToSet(calls) : c.caller = "handleSkillsNext" /\ TransitionSucceeded(c)


(***************************************************************************)
(* Claims about the order of persistence, local update and advancement,    *)
(* checked under Spec.                                                     *)
(***************************************************************************)
\* the step the continuation of invocation c moves the flow to
TargetOf(c) == IF c.caller = "handlePersonalInfoNext" THEN 2 ELSE 4

\* the continuation of succeeded invocation c is the step taken: it stores
\* the submitted fragment and moves the flow to the target
AppliesResultOf(c) ==
    /\ Settles(c)
    /\ TransitionSucceeded(c)
    /\ currentStep' = TargetOf(c)
    /\ IF c.caller = "handlePersonalInfoNext"
       THEN onboardingData' = [onboardingData EXCEPT !.personalInfo = Some(c.data)]
       ELSE onboardingData' = [onboardingData EXCEPT !.skills = Some(c.skills)]

\* C21: the step advances out of step 1 or into step 4, and onboardingData
\* changes, only in the continuation of an invocation whose persistence call
\* has returned successfully; that continuation stores the fragment and sets
\* the step together.
C21_PersistBeforeUpdateBeforeAdvance ==
    [][/\ (currentStep' > currentStep /\ <<currentStep, currentStep'>> # <<2, 3>>)
             => \E c \in BagToSet(calls) : AppliesResultOf(c)
       /\ (onboardingData' # onboardingData)
             => \E c \in BagToSet(calls) : AppliesResultOf(c)]_vars

C21_Witness ==
    /\ currentStep = 4
    /\ calls = EmptyBag
    /\ onboardingData.personalInfo # None
    /\ onboardingData.skills # None
    /\ onboardingData.skills[1] # <<>>


(***************************************************************************)
(* Claims about the loading flag, checked under Spec.                      *)
(***************************************************************************)
\* the invocations started by the three transitions of the controller
TransitionCalls ==
    {c \in BagToSet(calls) :
        c.caller \in {"handlePersonalInfoNext", "handleSkillsNext", "handleComplete"}}

\* C22: loading is true in exactly the states where the persistence
\* operation of a transition is in flight.
C22_LoadingIffInFlight == loading <=> (TransitionCalls # {})


(***************************************************************************)
(* Claims about failures inside the bridge, checked under BridgeSpec.      *)
(***************************************************************************)
\* injection fails inside the bridge: the session lookup throws, or the
\* lookup gives a user and the body text does not parse
InternalFailureCase ==
    /\ inbound # None
    /\ inbound[1].method \in BodyMethods
    /\ \/ inbound[1].lookupThrows
       \/ session # NoUser /\ ~inbound[1].body.valid

\* C23: after a failure inside the bridge the request handed on is the
\* inbound request, its body as received and still unread.
C23_InternalFailureForwardsIntact ==
    (InternalFailureCase /\ outbound # None)
    => /\ outbound[1].method = inbound[1].method
       /\ outbound[1].headers = inbound[1].headers
       /\ outbound[1].body = inbound[1].body
       /\ ~outbound[1].rebuilt
       /\ ~outbound[1].bodyUsed


(***************************************************************************)
(* Claims about the two phases of the resume upload, checked under         *)
(* Step2Spec.                                                              *)
(***************************************************************************)
\* the file of invocation c is in the bucket under the caller's path
Uploaded(c) == StoragePath(c.user, c.resumeData.file_name) \in storage

\* the record of invocation c is in the store
Recorded(c) ==
    \E r \in resumes :
        /\ r.user_id = c.user
        /\ r.file_name = c.resumeData.file_name
        /\ r.file_url = PublicUrl(StoragePath(c.user, c.resumeData.file_name))

\* C24: a resume record is inserted only by an upload whose file is in the
\* bucket; an upload that stops at the session lookup or at the storage
\* upload inserts nothing; uploadSuccess is set only by an upload whose file
\* and record are both there; Continue hands over to the controller only
\* with uploadSuccess set.
C24_UploadThenRecordThenSuccess ==
    [][/\ (resumes' # resumes)
             => \E c \in BagToSet(calls) :
                   /\ c.caller = "handleUpload" /\ c.pc = "insertResume"
                   /\ Uploaded(c)
                   /\ c.resumeData.file_url =
                         PublicUrl(StoragePath(c.user, c.resumeData.file_name))
       /\ \A c \in BagToSet(calls) :
             (Settles(c) /\ c.caller = "handleUpload"
                 /\ c.out.state \in {"notLoggedIn", "uploadError"})
             => /\ c.resumeData.file_url = <<>>
                /\ resumes' = resumes
                /\ uploadSuccess' = uploadSuccess
       /\ (uploadSuccess' /\ ~uploadSuccess)
             => \E c \in BagToSet(calls) :
                   /\ Settles(c) /\ c.caller = "handleUpload"
                   /\ c.out.state = "returned"
                   /\ Uploaded(c) /\ Recorded(c)
       /\ (ResumeUploadStep_handleNext /\ currentStep' = 3) => uploadSuccess]_vars

C24_Witness ==
    /\ currentStep = 3
    /\ uploadSuccess
    /\ \E r \in resumes : <<r.user_id, r.file_name>> \in storage


(***************************************************************************)
(* Claims about the error slot, checked under Spec.                        *)
(***************************************************************************)
\* invocation c was thrown by a statement the store rejected: its message is
\* the operation's prefix followed by the message of the store
StoreRejected(c) ==
    /\ c.pc = "done"
    /\ c.out.state = "thrown"
    /\ Len(c.out.message) = 2

\* C25: when the persistence operation of a transition was rejected by the
\* store, the continuation puts the store's message into the error slot
\* and starts no further call.
C25_StoreMessageVerbatim ==
    [][\A c \in TransitionCalls :
          (Settles(c) /\ StoreRejected(c))
          => /\ error' = c.out.message[2]
             /\ BagCardinality(calls') < BagCardinality(calls)]_vars


(***************************************************************************)
(* Claims about the range of the step, checked under Spec.                 *)
(***************************************************************************)
\* the step is one of the four steps, and handleBack run on step 1 can only
\* leave the step at 1
StepInRange ==
    /\ currentStep \in 1..4
    /\ (currentStep = 1)
          => /\ ENABLED handleBack
             /\ ~ENABLED (handleBack /\ currentStep' # 1)

\* C26: the flow starts on step 1; whatever submissions, skips, Backs and
\* completions of persistence calls happen, in whatever order, the step is
\* in 1..4, and handleBack on step 1 leaves it at 1.
C26_StepInRange == (currentStep = 1) /\ []StepInRange

\* Back has led to step 1 while a persistence call is in flight
C26_Witness ==
    /\ currentStep = 1
    /\ onboardingData.personalInfo # None
    /\ calls # EmptyBag


(***************************************************************************)
(* SkillsSpec: SkillsStep on step 3, reached after personal info was saved *)
(* and step 2 was skipped, with every skill and every level on offer.  The *)
(* calls that SkillsStep starts stay awaited: the store takes no step.     *)
(***************************************************************************)
StepSkillIds == {"s1", "s2"}

SavedPersonalInfo ==
    [full_name |-> <<"A">>, phone_number |-> <<"5">>, linkedin_url |-> <<>>]

SkillsInit ==
    /\ currentStep = 3
    /\ onboardingData = [personalInfo |-> Some(SavedPersonalInfo), skills |-> None]
    /\ loading = FALSE
    /\ error = ""
    /\ route = "/onboarding"
    /\ formData = EmptyForm
    /\ formErrors = NoErrors
    /\ selectedSkills = <<>>
    /\ calls = EmptyBag
    /\ session = "u1"
    /\ profiles = {NewProfile("u2"),
                   [NewProfile("u1") EXCEPT
                       !.full_name = Some(SavedPersonalInfo.full_name),
                       !.phone_number = Some(SavedPersonalInfo.phone_number),
                       !.linkedin_url = Some(SavedPersonalInfo.linkedin_url)]}
    /\ userSkills \in InitialUserSkills
    /\ resumes = {}
    /\ storage = {}
    /\ files = None
    /\ upLoading = FALSE
    /\ upError = <<>>
    /\ uploadSuccess = FALSE
    /\ inbound = None
    /\ outbound = None
    /\ page = "none"

ToggleAnySkill == \E s \in StepSkillIds : toggleSkill(s)

UpdateAnyProficiency ==
    \E s \in StepSkillIds, k \in DOMAIN PROFICIENCY_LEVELS :
        updateProficiency(s, PROFICIENCY_LEVELS[k])

SkillsNext ==
    \/ ToggleAnySkill
    \/ UpdateAnyProficiency
    \/ SkillsStep_handleNext
    \/ onBack
    \/ handleSkip

SkillsSpec == SkillsInit /\ [][SkillsNext]_vars


(***************************************************************************)
(* Claims about the skills fragment, checked under SkillsSpec.             *)
(***************************************************************************)
Levels == {PROFICIENCY_LEVELS[k] : k \in DOMAIN PROFICIENCY_LEVELS}

\* fragment f holds every skill_id at most once and only the four levels
WellFormed(f) ==
    /\ \A i \in DOMAIN f, j \in DOMAIN f : f[i].skill_id = f[j].skill_id => i = j
    /\ \A i \in DOMAIN f : f[i].proficiency_level \in Levels

\* the level fragment f gives skill s; <<>> when s is not in f
LevelIn(f, s) ==
    IF \E i \in DOMAIN f : f[i].skill_id = s
    THEN <<f[CHOOSE i \in DOMAIN f : f[i].skill_id = s].proficiency_level>>
    ELSE <<>>

\* C27: the selection of SkillsStep and every fragment handed to the
\* controller hold each skill_id at most once and only the four levels; the
\* fragment handed over is the selection of that moment; toggling an
\* unselected skill selects it with level intermediate, toggling a selected
\* skill removes it, and either leaves the other skills as they are.
C27_FragmentWellFormed ==
    /\ [](/\ WellFormed(selectedSkills)
          /\ \A c \in BagToSet(calls) : WellFormed(c.skills))
    /\ [][/\ SkillsStep_handleNext
                => \E c \in BagToSet(calls') :
                      /\ calls' = calls (+) SetToBag({c})
                      /\ c.caller = "handleSkillsNext"
                      /\ c.skills = selectedSkills
          /\ \A s \in StepSkillIds :
                toggleSkill(s)
                => /\ LevelIn(selectedSkills', s) =
                         IF LevelIn(selectedSkills, s) = <<>>
                         THEN <<"intermediate">> ELSE <<>>
                   /\ \A t \in StepSkillIds \ {s} :
                         LevelIn(selectedSkills', t) = LevelIn(selectedSkills, t)]_vars

\* both skills selected, one moved to a level other than the default, and
\* that selection handed to the controller
C27_Witness ==
    /\ Len(selectedSkills) = 2
    /\ LevelIn(selectedSkills, "s1") = <<"expert">>
    /\ \E c \in BagToSet(calls) : c.skills = selectedSkills


(***************************************************************************)
(* Claims about what progress in the flow implies, checked under Spec.     *)
(***************************************************************************)
\* the profile row of the session's user has been written by a personal
\* info update
ProfileSaved ==
    /\ ProfileOf("u1").full_name # None
    /\ ProfileOf("u1").phone_number # None

\* C28: from step 2 on, onboardingData.personalInfo is set and the profile
\* has been written; the completion action is available, and a completion
\* call is in flight, only with onboardingData.skills set; the update of
\* a personal info transition carries the submitted data, and when it has
\* returned the profile has been written.
C28_ProgressImpliesSaved ==
    /\ (currentStep >= 2)
          => /\ onboardingData.personalInfo # None
             /\ ProfileSaved
    /\ (ENABLED onComplete \/ currentStep = 4)
          => /\ onboardingData.skills # None
             /\ onboardingData.personalInfo # None
    /\ \A c \in BagToSet(calls) :
          (c.caller = "handleComplete")
          => /\ onboardingData.skills # None
             /\ onboardingData.personalInfo # None
             /\ ProfileSaved
    /\ \A c \in BagToSet(calls) :
          (c.caller = "handlePersonalInfoNext")
          => /\ c.updates = [NoUpdates EXCEPT
                                !.full_name = Some(c.data.full_name),
                                !.phone_number = Some(c.data.phone_number),
                                !.linkedin_url = Some(c.data.linkedin_url)]
             /\ TransitionSucceeded(c) => ProfileSaved

\* the completion action has been issued and its call is in flight
C28_Witness ==
    /\ currentStep = 4
    /\ \E c \in BagToSet(calls) : c.caller = "handleComplete" /\ c.pc # "done"


(***************************************************************************)
(* Claims about a failing setMasterResumeClient, checked under GatewaySpec.*)
(***************************************************************************)
\* invocation c names a resume that is not a resume of its user
NamesNoRow(c) ==
    /\ c.op = "setMasterResumeClient"
    /\ c.user \in Users
    /\ ~\E r \in resumes : r.id = c.resumeId /\ r.user_id = c.user

\* C29: when setMasterResumeClient, called alone with an id that matches no
\* resume of the caller, is done, it has thrown and the caller has no
\* master resume.
C29_NoMatchLeavesNoMaster ==
    \A c \in BagToSet(calls) :
        (NamesNoRow(c) /\ c.pc = "done")
        => /\ c.out.state = "thrown"
           /\ MasterRows(c.user) = {}


(***************************************************************************)
(* The protected page (app/protected/page.tsx).  page is its answer to the *)
(* request for /protected: "none" while there is none, "content" when it   *)
(* rendered, or the path it redirected to.                                 *)
(***************************************************************************)
\* a protected page that would not look at onboarding_completed
ProtectedPageAnswer_anyProfile(claimsError, readOk) ==
    IF claimsError \/ session = NoUser
    THEN "/auth/login"
    ELSE IF ~readOk \/ Cardinality({r \in profiles : r.id = session}) # 1
         THEN "/onboarding"
         ELSE "content"

\* ProtectedPage: getClaims, getProfile(userId) (which throws when the row
\* cannot be read or is not exactly one), the test of onboarding_completed;
\* the redirect thrown inside try is caught and thrown again by the catch
ProtectedPageAnswer(claimsError, readOk) ==
    IF claimsError \/ session = NoUser
    THEN "/auth/login"
    ELSE LET rows == {r \in profiles : r.id = session}
         IN  IF ~readOk \/ Cardinality(rows) # 1
             THEN "/onboarding"
             ELSE IF ~(CHOOSE r \in rows : TRUE).onboarding_completed
                  THEN "/onboarding"
                  ELSE "content"

ProtectedPage ==
    /\ route = "/protected" /\ page = "none"
    /\ \E claimsError \in BOOLEAN, readOk \in BOOLEAN :
          page' = ProtectedPageAnswer(claimsError, readOk)
    /\ UNCHANGED <<flowVars, viewVars, storeVars, session, calls, resumeVars,
                   uploadVars, bridgeVars>>

\* the user opens /protected by its address
Visit ==
    /\ route = "/onboarding" /\ calls = EmptyBag
    /\ route' = "/protected"
    /\ UNCHANGED <<currentStep, onboardingData, loading, error, viewVars, storeVars,
                   session, calls, resumeVars, uploadVars, bridgeVars, pageVars>>

(***************************************************************************)
(* PageSpec: the onboarding flow and the protected page, for a user with   *)
(* or without a session and with or without a profile row.                 *)
(***************************************************************************)
PageInit ==
    /\ currentStep = 1
    /\ onboardingData = [personalInfo |-> None, skills |-> None]
    /\ loading = FALSE
    /\ error = ""
    /\ route = "/onboarding"
    /\ formData = EmptyForm
    /\ formErrors = NoErrors
    /\ selectedSkills = <<>>
    /\ calls = EmptyBag
    /\ session \in {"u1", NoUser}
    /\ profiles \in {{NewProfile(u) : u \in Users}, {NewProfile("u2")}}
    /\ userSkills \in InitialUserSkills
    /\ resumes = {}
    /\ storage = {}
    /\ files = None
    /\ upLoading = FALSE
    /\ upError = <<>>
    /\ uploadSuccess = FALSE
    /\ inbound = None
    /\ outbound = None
    /\ page = "none"

PageNext ==
    \/ InputChange
    \/ handleSubmit
    \/ handleSkip
    \/ ToggleSkill
    \/ SkillsStep_handleNext
    \/ onComplete
    \/ GetUser
    \/ ProfileUpdate
    \/ SkillsDelete
    \/ SkillsInsert
    \/ PersonalInfoSettled
    \/ SkillsSettled
    \/ CompleteSettled
    \/ Visit
    \/ ProtectedPage

PageSpec == PageInit /\ [][PageNext]_vars

(***************************************************************************)
(* Claims about the protected page, checked under PageSpec.                *)
(***************************************************************************)
\* the profile row of the session's user exists with onboarding_completed
Completed ==
    /\ session # NoUser
    /\ \E r \in profiles : r.id = session /\ r.onboarding_completed

\* the answer of the page is at most what the session and the store allow
Gated ==
    /\ (page = "content") => Completed
    /\ (route = "/protected" /\ page = "none")
          => /\ ENABLED ProtectedPage
             /\ Completed => ENABLED (ProtectedPage /\ page' = "content")
             /\ Completed \/ ~ENABLED (ProtectedPage /\ page' = "content")

\* C30: the page renders only for a session whose profile exists with
\* onboarding_completed; without a session it redirects to /auth/login,
\* otherwise without a completed profile to /auth/login or /onboarding;
\* when the completion update of the controller has returned, the profile
\* is completed and stays so, so the page the controller navigates to can
\* render.
C30_ProtectedPageGated ==
    /\ []Gated
    /\ [][/\ ProtectedPage
                => /\ page' \in {"content", "/auth/login", "/onboarding"}
                   /\ (session = NoUser) => page' = "/auth/login"
                   /\ (session # NoUser /\ ~Completed)
                         => page' \in {"/auth/login", "/onboarding"}
          /\ \A c \in BagToSet(calls) :
                (Settles(c) /\ c.caller = "handleComplete" /\ c.out.state = "returned")
                => /\ route' = "/protected"
                   /\ Completed'
          /\ Completed => Completed']_vars

\* the flow was completed and the page the controller navigated to rendered
C30_Witness ==
    /\ page = "content"
    /\ currentStep = 4
    /\ onboardingData.skills # None

====
